---- MODULE Spec2Model ----
(***************************************************************************)
(* vec_storage_reuse: a holder (VecStorageForReuse<S>) owning a Vec<S>,    *)
(* and a scoped guard (VecStorageReuse<'a, T, S>) that reinterprets the    *)
(* holder's allocation as a Vec<T> and hands it back from its Drop.        *)
(*                                                                         *)
(* A Vec is the record [elems, cap, buf]: the sequence of its elements     *)
(* (each element a distinct identity, so destructor runs can be counted),  *)
(* its capacity and the identity of its heap buffer (NoBuf when it owns    *)
(* none).  The heap records for every buffer whether it was never          *)
(* allocated, is live, was freed, or was freed twice.                      *)
(***************************************************************************)
EXTENDS Integers, Sequences, FiniteSets, TLC

VARIABLES hState, S, storage, origin, requested, fromArr, returned,
          guards, heap, drops, nextElem, allocCount

vars == <<hState, S, storage, origin, requested, fromArr, returned,
          guards, heap, drops, nextElem, allocCount>>

(* ------------------------------ bounds --------------------------------- *)
\* Largest capacity (and length) a vector of a sized type grows to.
MaxCap == 3
\* Number of calls of reuse_allocation on the holder.
MaxGuards == 2
\* Number of elements ever created.
MaxElems == MaxCap + 1
\* Number of buffers the allocator ever hands out.
MaxBufs == MaxCap + MaxGuards

(* ------------------------- element types ------------------------------- *)
\* The type parameters S and T range over element types; only their layout
\* (size, alignment) matters to the code.  A and B share a layout, C differs
\* from them in alignment only, Z (zero-sized, such as [u32; 0]) in size only.
Types == {"A", "B", "C", "Z"}

Layout ==
    [t \in Types |->
        CASE t = "A" -> [size |-> 4, align |-> 4]
          [] t = "B" -> [size |-> 4, align |-> 4]
          [] t = "C" -> [size |-> 4, align |-> 2]
          [] t = "Z" -> [size |-> 0, align |-> 4]]

\* usize::MAX, the capacity every Vec of a zero-sized type reports
\* (scaled to a 16-bit usize: the model never counts that far).
UsizeMax == 65535

NoBuf == 0
NoType == "-"
BufIds == 1..MaxBufs
ElemIds == 1..MaxElems
GuardIds == 1..MaxGuards

IsZst(t) == Layout[t].size = 0

(* ------------------------------ Vec ------------------------------------ *)
\* Vec::new(): no elements, no allocation.
VecNew(t) == [elems |-> <<>>, cap |-> IF IsZst(t) THEN UsizeMax ELSE 0, buf |-> NoBuf]

Range(s) == {s[i] : i \in DOMAIN s}

\* Running the destructor of every element of es once.
DropElems(d, es) == [e \in DOMAIN d |-> IF e \in Range(es) THEN d[e] + 1 ELSE d[e]]

\* Returning a buffer to the allocator.
Free(h, b) ==
    IF b = NoBuf THEN h
    ELSE [h EXCEPT ![b] = IF @ = "live" THEN "freed" ELSE "doublefreed"]

CanAlloc(h) == \E b \in BufIds : h[b] = "unalloc"

NewBuf(h) == CHOOSE b \in BufIds : h[b] = "unalloc" /\ \A c \in BufIds : c < b => h[c] # "unalloc"

\* Fresh element identities n+1 .. n+k.
Fresh(n, k) == [i \in 1..k |-> n + i]



(* --------------------- recycle_vec::VecExt::recycle -------------------- *)
\* A layout check that compares the sizes only.
SizeMatches(From, To) == Layout[From].size = Layout[To].size

\* The check recycle makes before it touches the vector: the source and the
\* target type must have the same size and the same alignment.
LayoutMatches(From, To) ==
    /\ Layout[From].size = Layout[To].size
    /\ Layout[From].align = Layout[To].align

\* A recycle that returns a new empty vector instead of the argument's buffer.
recycleFresh(v) == [elems |-> <<>>, cap |-> 0, buf |-> NoBuf]

\* A recycle that leaves the elements in the vector.
recycleKeepsElems(v) == v

\* The vector recycle returns when the layouts match: the argument's buffer
\* and capacity, emptied.  (The elements it held are dropped: see the callers.)
recycle(v) == [elems |-> <<>>, cap |-> v.cap, buf |-> v.buf]

(* ------------------------- Vec<T> mutation ----------------------------- *)
\* The capacities the allocator may give when a vector of capacity v.cap
\* must hold `need` elements (the growth policy is the standard library's).
GrowChoices(v, need, h) ==
    IF need <= v.cap THEN {v.cap}
    ELSE {c \in need..MaxCap : CanAlloc(h)}

\* Vec::reserve as push and resize use it: nothing when the capacity
\* suffices, else one call of the allocator (alloc, or realloc, which gives
\* up the old block for the one it returns).
Reserve(v, need, c, h) ==
    IF need <= v.cap THEN [vec |-> v, heap |-> h, allocs |-> 0]
    ELSE LET b == NewBuf(h)
         IN  [vec |-> [v EXCEPT !.cap = c, !.buf = b],
              heap |-> [Free(h, v.buf) EXCEPT ![b] = "live"],
              allocs |-> 1]

(* ------------------------------ state ---------------------------------- *)
EmptyVec == [elems |-> <<>>, cap |-> 0, buf |-> NoBuf]

\* A guard that does not exist yet.  Beside the struct's fields (T, inner;
\* the field `storage` is the reference to the one holder) a guard carries
\* its history: the elements the holder held when it was created (taken),
\* the capacity it started with (cap0), whether pushing is all that was
\* done to it (pure), how often its Drop wrote the holder's array
\* (handoffs), and from its Drop on how its scope ended (exit) and the
\* length and capacity its vector had then (lenEnd, capEnd).
Unborn ==
    [state |-> "unborn", T |-> NoType, inner |-> EmptyVec, taken |-> <<>>,
     cap0 |-> 0, pure |-> TRUE, handoffs |-> 0,
     exit |-> "none", lenEnd |-> 0, capEnd |-> 0]

\* The history of a cycle is kept until the next call of reuse_allocation;
\* of older guards only the state, the handoff count and, of those that were
\* dropped, the type and the final capacity remain.
Forget(gd) ==
    [Unborn EXCEPT !.state = gd.state, !.handoffs = gd.handoffs,
                   !.T = IF gd.state = "dropped" THEN gd.T ELSE NoType,
                   !.capEnd = gd.capEnd]

Init ==
    /\ hState = "none"
    /\ S = NoType
    /\ storage = EmptyVec
    /\ origin = "none"
    /\ requested = 0
    /\ fromArr = EmptyVec
    /\ returned = EmptyVec
    /\ guards = [g \in GuardIds |-> Unborn]
    /\ heap = [b \in BufIds |-> "unalloc"]
    /\ drops = [e \in ElemIds |-> 0]
    /\ nextElem = 0
    /\ allocCount = 0

(* -------------------------- VecStorageForReuse ------------------------- *)
\* VecStorageForReuse::new()
New(s) ==
    /\ hState = "none"
    /\ hState' = "live"
    /\ S' = s
    /\ storage' = VecNew(s)
    /\ origin' = "new"
    /\ UNCHANGED <<requested, fromArr, returned, guards, heap, drops, nextElem, allocCount>>

\* A with_capacity that reserves nothing.
VecWithoutCapacity(s, n, c, h) == [vec |-> VecNew(s), heap |-> h, allocs |-> 0]

\* Vec::with_capacity(n): room for at least n elements.
VecWithCapacity(s, n, c, h) ==
    IF IsZst(s) \/ c = 0 THEN [vec |-> VecNew(s), heap |-> h, allocs |-> 0]
    ELSE LET b == NewBuf(h)
         IN  [vec |-> [elems |-> <<>>, cap |-> c, buf |-> b],
              heap |-> [h EXCEPT ![b] = "live"], allocs |-> 1]

\* VecStorageForReuse::with_capacity(capacity).  The capacity asked for is
\* remembered (requested) until the holder is first acquired.
WithCapacity(s, capacity) ==
    /\ hState = "none"
    /\ \E c \in capacity..MaxCap :
         /\ IsZst(s) => c = capacity
         /\ LET r == VecWithCapacity(s, capacity, c, heap)
            IN  /\ storage' = r.vec
                /\ heap' = r.heap
                /\ allocCount' = allocCount + r.allocs
    /\ hState' = "live"
    /\ S' = s
    /\ origin' = "with_capacity"
    /\ requested' = capacity
    /\ UNCHANGED <<fromArr, returned, guards, drops, nextElem>>

\* The vectors a caller can pass to from_vec: n elements in a buffer of
\* capacity c >= n (no buffer when c = 0 or the type is zero-sized).
CallerVec(s, n, c) ==
    [elems |-> Fresh(0, n),
     cap |-> IF IsZst(s) THEN UsizeMax ELSE c,
     buf |-> IF IsZst(s) \/ c = 0 THEN NoBuf ELSE 1]

\* A from_vec that clears the vector it is given.
from_vec_cleared(s, vec_to_use_as_storage) ==
    [inner |-> [vec_to_use_as_storage EXCEPT !.elems = <<>>]]

\* VecStorageForReuse::from_vec(vec_to_use_as_storage)
from_vec(s, vec_to_use_as_storage) ==
    [inner |-> vec_to_use_as_storage]

FromVec(s, n, c) ==
    /\ hState = "none"
    /\ n <= c
    /\ IsZst(s) => c = n
    /\ LET arr == CallerVec(s, n, c)
       IN  /\ storage' = from_vec(s, arr).inner
           /\ fromArr' = arr
           /\ heap' = IF arr.buf = NoBuf THEN heap ELSE [heap EXCEPT ![arr.buf] = "live"]
           /\ allocCount' = allocCount + (IF arr.buf = NoBuf THEN 0 ELSE 1)
    /\ nextElem' = n
    /\ hState' = "live"
    /\ S' = s
    /\ origin' = "from_vec"
    /\ UNCHANGED <<requested, returned, guards, drops>>

\* A guard that holds no borrow of the holder.
NeverBorrowed == FALSE

\* The exclusive borrow &'a mut held by a guard for its lifetime 'a: while
\* it is outstanding the holder can be neither borrowed again nor moved.
Borrowed == \E g \in GuardIds : guards[g].state = "live"

\* VecStorageForReuse::into_inner(self)
into_inner(self) == self.inner

IntoInner ==
    /\ hState = "live"
    /\ ~Borrowed
    /\ returned' = into_inner([inner |-> storage])
    /\ hState' = "consumed"
    /\ UNCHANGED <<requested, S, storage, origin, fromArr, guards, heap, drops, nextElem, allocCount>>

\* The holder going out of scope: its Vec<S> is dropped.
DropHolder ==
    /\ hState = "live"
    /\ ~Borrowed
    /\ hState' = "dropped"
    /\ drops' = DropElems(drops, storage.elems)
    /\ heap' = Free(heap, storage.buf)
    /\ UNCHANGED <<requested, S, storage, origin, fromArr, returned, guards, nextElem, allocCount>>

(* ---------------------------- VecStorageReuse -------------------------- *)
\* A new that checks the layout before it takes the holder's vector, so
\* that a failed call leaves the holder as it was.
NewChecksFirst(T, st, h, d) ==
    IF LayoutMatches(S, T)
    THEN [panicked |-> FALSE, storage |-> VecNew(S), inner |-> recycle(st),
          heap |-> h, drops |-> DropElems(d, st.elems)]
    ELSE [panicked |-> TRUE, storage |-> st, inner |-> EmptyVec, heap |-> h, drops |-> d]

\* A new that starts from Vec::new() and leaves the holder's vector in place.
NewWithoutReuse(T, st, h, d) ==
    IF LayoutMatches(S, T)
    THEN [panicked |-> FALSE, storage |-> st, inner |-> VecNew(T), heap |-> h, drops |-> d]
    ELSE [panicked |-> TRUE, storage |-> st, inner |-> EmptyVec, heap |-> h, drops |-> d]

\* VecStorageReuse::new(storage): mem::replace takes the holder's vector and
\* leaves Vec::new() behind, then recycle reinterprets it.  When recycle's
\* layout check fails it panics and the vector it was given is dropped by
\* the unwinding: no guard is produced.
VecStorageReuse_new(T, st, h, d) ==
    LET taken == st
    IN  IF LayoutMatches(S, T)
        THEN [panicked |-> FALSE, storage |-> VecNew(S), inner |-> recycle(taken),
              heap |-> h, drops |-> DropElems(d, taken.elems)]
        ELSE [panicked |-> TRUE, storage |-> VecNew(S), inner |-> EmptyVec,
              heap |-> Free(h, taken.buf), drops |-> DropElems(d, taken.elems)]

\* The next guard to be created.
NextGuard(g) ==
    /\ guards[g].state = "unborn"
    /\ \A k \in GuardIds : k < g => guards[k].state # "unborn"

\* VecStorageForReuse::reuse_allocation::<T>(&'a mut self)
reuse_allocation(g, T) ==
    /\ hState = "live"
    /\ ~Borrowed
    /\ NextGuard(g)
    /\ LET r == VecStorageReuse_new(T, storage, heap, drops)
       IN  /\ storage' = r.storage
           /\ heap' = r.heap
           /\ drops' = r.drops
           /\ guards' = [k \in GuardIds |->
                  IF k = g
                  THEN [Unborn EXCEPT !.state = IF r.panicked THEN "panicked" ELSE "live",
                                      !.T = T,
                                      !.inner = r.inner,
                                      !.taken = storage.elems,
                                      !.cap0 = r.inner.cap]
                  ELSE Forget(guards[k])]
    /\ requested' = 0
    /\ UNCHANGED <<hState, S, origin, fromArr, returned, nextElem, allocCount>>

\* A guard without the Drop impl: its fields are dropped, the working
\* vector with them, and the holder keeps the placeholder.
DropWithoutHandoff(g, st, h, d) ==
    LET gd == guards[g]
        v  == gd.inner
    IN  [storage |-> st,
         heap |-> Free(h, v.buf),
         drops |-> DropElems(d, v.elems),
         guard |-> [gd EXCEPT !.inner = VecNew(gd.T),
                              !.lenEnd = Len(v.elems), !.capEnd = v.cap]]

\* A Drop that copies the working vector out instead of replacing it: the
\* guard's field still owns the buffer and frees it when the field is dropped.
DropAliases(g, st, h, d) ==
    LET gd == guards[g]
        v  == gd.inner
    IN  [storage |-> recycle(v),
         heap |-> Free(Free(h, st.buf), v.buf),
         drops |-> DropElems(DropElems(d, v.elems), st.elems),
         guard |-> [gd EXCEPT !.inner = VecNew(gd.T), !.handoffs = @ + 1,
                              !.lenEnd = Len(v.elems), !.capEnd = v.cap]]

\* A Drop that hands the buffer back without dropping what is left in it.
DropLeaksElems(g, st, h, d) ==
    LET gd == guards[g]
        v  == gd.inner
    IN  [storage |-> recycle(v),
         heap |-> Free(h, st.buf),
         drops |-> DropElems(d, st.elems),
         guard |-> [gd EXCEPT !.inner = VecNew(gd.T), !.handoffs = @ + 1,
                              !.lenEnd = Len(v.elems), !.capEnd = v.cap]]

\* A Drop that hands the buffer back with its capacity forgotten.
DropLosesCapacity(g, st, h, d) ==
    LET gd == guards[g]
        v  == gd.inner
    IN  [storage |-> [recycle(v) EXCEPT !.cap = IF IsZst(S) THEN UsizeMax ELSE 0],
         heap |-> Free(h, st.buf),
         drops |-> DropElems(DropElems(d, v.elems), st.elems),
         guard |-> [gd EXCEPT !.inner = VecNew(gd.T), !.handoffs = @ + 1,
                              !.lenEnd = Len(v.elems), !.capEnd = v.cap]]

\* <VecStorageReuse as Drop>::drop: mem::replace takes the working vector
\* and leaves Vec::new() in the guard, recycle reinterprets it back, and the
\* assignment to *self.storage drops the vector the holder held and stores
\* the recycled one.  The guard's own fields are dropped afterwards.
Drop(g, st, h, d) ==
    LET gd == guards[g]
        v  == gd.inner
        left == VecNew(gd.T)
    IN  IF LayoutMatches(gd.T, S)
        THEN [storage |-> recycle(v),
              heap |-> Free(Free(h, st.buf), left.buf),
              drops |-> DropElems(DropElems(d, v.elems), st.elems),
              guard |-> [gd EXCEPT !.inner = left, !.handoffs = @ + 1,
                                   !.lenEnd = Len(v.elems), !.capEnd = v.cap]]
        ELSE [storage |-> st,
              heap |-> Free(Free(h, v.buf), left.buf),
              drops |-> DropElems(d, v.elems),
              guard |-> [gd EXCEPT !.inner = left,
                                   !.lenEnd = Len(v.elems), !.capEnd = v.cap]]

\* The ways the scope that holds a guard can end; each runs the guard's Drop.
Exits == {"fallthrough", "return", "unwind"}

ScopeExit(g, how) ==
    /\ guards[g].state = "live"
    /\ LET r == Drop(g, storage, heap, drops)
       IN  /\ storage' = r.storage
           /\ heap' = r.heap
           /\ drops' = r.drops
           /\ guards' = [guards EXCEPT ![g] = [r.guard EXCEPT !.state = "dropped", !.exit = how]]
    /\ UNCHANGED <<requested, hState, S, origin, fromArr, returned, nextElem, allocCount>>

(* ------------- the working vector, through DerefMut -------------------- *)
\* Deref: guard.len(), guard[i], guard.iter() read the working vector.
Read(g) ==
    /\ guards[g].state = "live"
    /\ UNCHANGED vars

\* A push that goes to the holder's array: deref_mut handing out
\* self.storage instead of self.inner.
PushThroughStorage(g) ==
    /\ guards[g].state = "live"
    /\ nextElem < MaxElems
    /\ storage' = [storage EXCEPT !.elems = Append(@, nextElem + 1)]
    /\ nextElem' = nextElem + 1
    /\ UNCHANGED <<requested, hState, S, origin, fromArr, returned, guards, heap, drops, allocCount>>

\* guard.push(value)
Push(g) ==
    /\ guards[g].state = "live"
    /\ nextElem < MaxElems
    /\ Len(guards[g].inner.elems) < MaxCap
    /\ LET v == guards[g].inner
       IN  \E c \in GrowChoices(v, Len(v.elems) + 1, heap) :
             LET r == Reserve(v, Len(v.elems) + 1, c, heap)
             IN  /\ guards' = [guards EXCEPT ![g].inner =
                                  [r.vec EXCEPT !.elems = Append(@, nextElem + 1)]]
                 /\ heap' = r.heap
                 /\ allocCount' = allocCount + r.allocs
    /\ nextElem' = nextElem + 1
    /\ UNCHANGED <<requested, hState, S, storage, origin, fromArr, returned, drops>>

\* guard.pop()
Pop(g) ==
    /\ guards[g].state = "live"
    /\ LET v == guards[g].inner
           n == Len(v.elems)
       IN  /\ guards' = [guards EXCEPT
                  ![g].inner.elems = IF n = 0 THEN <<>> ELSE SubSeq(v.elems, 1, n - 1),
                  ![g].pure = FALSE]
           /\ drops' = IF n = 0 THEN drops ELSE DropElems(drops, <<v.elems[n]>>)
    /\ UNCHANGED <<requested, hState, S, storage, origin, fromArr, returned, heap, nextElem, allocCount>>

\* guard.clear()
Clear(g) ==
    /\ guards[g].state = "live"
    /\ guards' = [guards EXCEPT ![g].inner.elems = <<>>, ![g].pure = FALSE]
    /\ drops' = DropElems(drops, guards[g].inner.elems)
    /\ UNCHANGED <<requested, hState, S, storage, origin, fromArr, returned, heap, nextElem, allocCount>>

\* guard.resize(new_len, value): truncates, or extends with clones of value.
Resize(g, new_len) ==
    /\ guards[g].state = "live"
    /\ LET v == guards[g].inner
           n == Len(v.elems)
           k == IF new_len > n THEN new_len - n ELSE 0
       IN  /\ nextElem + k <= MaxElems
           /\ \E c \in GrowChoices(v, new_len, heap) :
                LET r == Reserve(v, new_len, c, heap)
                IN  /\ guards' = [guards EXCEPT
                           ![g].inner = [r.vec EXCEPT !.elems =
                               IF new_len <= n THEN SubSeq(@, 1, new_len)
                               ELSE @ \o Fresh(nextElem, k)],
                           ![g].pure = FALSE]
                    /\ heap' = r.heap
                    /\ allocCount' = allocCount + r.allocs
           /\ drops' = IF new_len < n THEN DropElems(drops, SubSeq(v.elems, new_len + 1, n))
                       ELSE drops
           /\ nextElem' = nextElem + k
    /\ UNCHANGED <<requested, hState, S, storage, origin, fromArr, returned>>

\* guard[i] = value: the element in place is dropped and replaced.
IndexAssign(g, i) ==
    /\ guards[g].state = "live"
    /\ i \in 1..Len(guards[g].inner.elems)
    /\ nextElem < MaxElems
    /\ guards' = [guards EXCEPT ![g].inner.elems[i] = nextElem + 1, ![g].pure = FALSE]
    /\ drops' = DropElems(drops, <<guards[g].inner.elems[i]>>)
    /\ nextElem' = nextElem + 1
    /\ UNCHANGED <<requested, hState, S, storage, origin, fromArr, returned, heap, allocCount>>

(* --------------------------- specification ----------------------------- *)
Next ==
    \/ \E s \in Types : New(s)
    \/ \E s \in Types, n \in 0..MaxCap : WithCapacity(s, n)
    \/ \E s \in Types, n \in 0..MaxElems, c \in 0..MaxCap : FromVec(s, n, c)
    \/ \E g \in GuardIds, T \in Types : reuse_allocation(g, T)
    \/ \E g \in GuardIds : Read(g)
    \/ \E g \in GuardIds : Push(g)
    \/ \E g \in GuardIds : Pop(g)
    \/ \E g \in GuardIds : Clear(g)
    \/ \E g \in GuardIds, n \in 0..MaxCap : Resize(g, n)
    \/ \E g \in GuardIds, i \in 1..MaxCap : IndexAssign(g, i)
    \/ \E g \in GuardIds, how \in Exits : ScopeExit(g, how)
    \/ IntoInner
    \/ DropHolder

Spec == Init /\ [][Next]_vars

(* ------------------------------ claims --------------------------------- *)
Live(g) == guards[g].state = "live"
Dropped(g) == guards[g].state = "dropped"
\* The step creates guard g (reuse_allocation returned it).
Acquires(g) == guards[g].state = "unborn" /\ guards'[g].state = "live"
\* The step attempts to create guard g (reuse_allocation was called).
Attempts(g) == guards[g].state = "unborn" /\ guards'[g].state # "unborn"
\* The step ends the scope of guard g.
Releases(g) == guards[g].state = "live" /\ guards'[g].state = "dropped"

\* C1: every guard whose scope has ended, however it ended (fallthrough,
\* early return, unwinding), has handed its vector back to the holder
\* exactly once, and no other guard has handed anything back; after the
\* exit the holder, while it exists, owns the handed-back array.
HandoffExactlyOnce ==
    \A g \in GuardIds :
        /\ guards[g].handoffs = IF Dropped(g) THEN 1 ELSE 0
        /\ (Dropped(g) /\ guards[g].exit # "none") => guards[g].exit \in Exits
        /\ (Dropped(g) /\ guards[g].exit # "none" /\ hState = "live") =>
              /\ storage.cap = guards[g].capEnd
              /\ storage.buf # NoBuf => heap[storage.buf] = "live"

HandoffAfterUnwind ==
    \E g \in GuardIds :
        /\ Dropped(g) /\ guards[g].exit = "unwind" /\ guards[g].lenEnd > 0
        /\ \E k \in GuardIds : Dropped(k) /\ k # g

\* C2: a guard acquired from a holder that held N elements starts with a
\* working vector of length 0, each of the N elements has been dropped by
\* the acquisition exactly once, and no element is ever dropped twice.
TakenDroppedOnce ==
    /\ [](\A e \in ElemIds : drops[e] <= 1)
    /\ [](\A g \in GuardIds : (Live(g) \/ Dropped(g)) =>
              \A e \in Range(guards[g].taken) : drops[e] = 1)
    /\ [][\A g \in GuardIds : Acquires(g) =>
              /\ guards'[g].inner.elems = <<>>
              /\ \A e \in Range(storage.elems) : drops[e] = 0 /\ drops'[e] = 1]_vars

TakenTwoElements ==
    \E g \in GuardIds :
        /\ Dropped(g) /\ Len(guards[g].taken) = 2 /\ guards[g].lenEnd > 0
        /\ hState = "dropped"

\* C3: after a scope that ended by unwinding while the working vector was
\* being populated, the holder's array is empty, has the capacity the
\* working vector had at the exit, which is at least the capacity the
\* holder had before the acquisition, owns a live buffer (or none), the
\* holder is not borrowed, and the next acquisition with a matching layout
\* succeeds and gets that capacity.
UnwindLeavesHolderUsable ==
    /\ [](\A g \in GuardIds : (Dropped(g) /\ guards[g].exit = "unwind" /\ hState = "live") =>
              /\ storage.elems = <<>>
              /\ storage.cap = guards[g].capEnd
              /\ guards[g].capEnd >= guards[g].cap0
              /\ storage.buf # NoBuf => heap[storage.buf] = "live"
              /\ ~Borrowed)
    /\ [][\A g, k \in GuardIds :
              (/\ Dropped(g) /\ guards[g].exit = "unwind"
               /\ Attempts(k) /\ Layout[guards'[k].T] = Layout[S]) =>
                  /\ guards'[k].state = "live"
                  /\ guards'[k].inner.cap = guards[g].capEnd]_vars

UnwindPartwayThenAcquire ==
    \E g \in GuardIds :
        /\ Dropped(g) /\ guards[g].exit = "unwind"
        /\ guards[g].lenEnd > 0 /\ guards[g].capEnd > guards[g].cap0
        /\ hState = "live"

\* C4: no guard exists (live, or dropped later) whose working type differs
\* in size or alignment from the holder's storage type: such a call of
\* reuse_allocation panics and produces no working vector.
NoGuardOnLayoutMismatch ==
    \A g \in GuardIds :
        /\ (Live(g) \/ Dropped(g)) => Layout[guards[g].T] = Layout[S]
        /\ (guards[g].state = "panicked" /\ guards[g].T # NoType) =>
              /\ Layout[guards[g].T] # Layout[S]
              /\ guards[g].inner = EmptyVec

PanickedOnAlignment ==
    \E g \in GuardIds :
        /\ guards[g].state = "panicked" /\ guards[g].T # NoType
        /\ Layout[guards[g].T].size = Layout[S].size
        /\ Layout[guards[g].T].align # Layout[S].align

\* C5: at most one guard of the holder is live at any time, the holder is
\* never consumed or dropped while a guard is live, and a call of
\* reuse_allocation, into_inner or the holder's drop happens only when every
\* earlier guard has been dropped and has handed back.
SingleOutstandingGuard ==
    /\ [](Cardinality({g \in GuardIds : Live(g)}) <= 1)
    /\ [](hState \in {"consumed", "dropped"} => \A g \in GuardIds : ~Live(g))
    /\ [][((\E k \in GuardIds : Attempts(k)) \/ hState' \in {"consumed", "dropped"}) =>
              \A g \in GuardIds :
                  /\ ~Live(g)
                  /\ guards[g].state \in {"dropped"} => guards[g].handoffs = 1]_vars

SecondGuardAfterFirst ==
    /\ Dropped(1) /\ Live(2)
    /\ guards[2].inner.elems # <<>>

\* C6: a successful reuse_allocation gives the guard's working vector the
\* buffer and the capacity the holder's array had just before the call, and
\* calls the allocator neither to allocate nor to free.
AcquirePreservesAllocation ==
    [][\A g \in GuardIds : Acquires(g) =>
          /\ guards'[g].inner.buf = storage.buf
          /\ guards'[g].inner.cap = storage.cap
          /\ heap' = heap
          /\ allocCount' = allocCount]_vars

AcquiredAllocatedBuffer ==
    \E g \in GuardIds :
        /\ Live(g) /\ guards[g].inner.elems = <<>>
        /\ guards[g].inner.buf # NoBuf /\ heap[guards[g].inner.buf] = "live"
        /\ guards[g].inner.cap = MaxCap /\ guards[g].cap0 = MaxCap

\* C7: when a guard is dropped, every element left in its working vector is
\* dropped exactly once by that step, and the holder's array resumes empty
\* with the capacity and the buffer the working vector had at that moment,
\* the buffer still allocated.
DropHandsBackWorkingVector ==
    [][\A g \in GuardIds : Releases(g) =>
          /\ \A e \in Range(guards[g].inner.elems) : drops[e] = 0 /\ drops'[e] = 1
          /\ \A e \in ElemIds \ Range(guards[g].inner.elems) : drops'[e] = drops[e]
          /\ storage'.elems = <<>>
          /\ storage'.cap = guards[g].inner.cap
          /\ storage'.buf = guards[g].inner.buf
          /\ storage'.buf # NoBuf => heap'[storage'.buf] = "live"
          /\ allocCount' = allocCount]_vars

DroppedGrownNonEmpty ==
    \E g \in GuardIds :
        /\ Dropped(g) /\ ~guards[g].pure
        /\ guards[g].lenEnd > 0 /\ guards[g].capEnd > guards[g].cap0
        /\ guards[g].cap0 > 0
        /\ hState = "live" /\ storage.cap = guards[g].capEnd

\* The guards up to g were all acquired with the working type of g.
FixedType(g) ==
    \A k \in GuardIds : k <= g =>
        /\ guards[k].state \in {"live", "dropped"}
        /\ guards[k].T = guards[g].T

\* C8: in cycles with one fixed working type, once an earlier cycle has
\* ended with capacity C, the allocator is called during a later cycle only
\* by a step that makes the working vector longer than C.
NoAllocationWithinCapacity ==
    [][\A g \in GuardIds :
          (/\ guards[g].state = "live" /\ guards'[g].state = "live"
           /\ FixedType(g)
           /\ allocCount' # allocCount \/ heap' # heap) =>
              \A k \in GuardIds : (k < g /\ Dropped(k)) =>
                  Len(guards'[g].inner.elems) > guards[k].capEnd]_vars

SecondCycleWithinCapacity ==
    /\ origin = "new" /\ allocCount = 1
    /\ Dropped(1) /\ guards[1].capEnd = 1
    /\ Live(2) /\ guards[2].T = guards[1].T
    /\ Len(guards[2].inner.elems) = 1 /\ ~guards[2].pure

\* C9: a holder created empty, acquired with working type A, k elements
\* pushed, the guard dropped, then acquired with a different working type B
\* of the same size and alignment: the second acquisition succeeds, its
\* working vector starts empty with capacity >= k, and the acquisition
\* calls the allocator for nothing.
SecondTypeReusesAllocation ==
    [][\A g, k \in GuardIds :
          (/\ origin = "new"
           /\ Dropped(k) /\ guards[k].exit # "none" /\ guards[k].pure
           /\ Attempts(g)
           /\ guards'[g].T # guards[k].T
           /\ Layout[guards'[g].T] = Layout[guards[k].T]) =>
              /\ guards'[g].state = "live"
              /\ guards'[g].inner.elems = <<>>
              /\ guards'[g].inner.cap >= guards[k].lenEnd
              /\ allocCount' = allocCount
              /\ heap' = heap]_vars

SecondTypeAfterPushes ==
    /\ origin = "new"
    /\ Dropped(1) /\ guards[1].T = "A"
    /\ Live(2) /\ guards[2].T = "B"
    /\ guards[2].cap0 >= MaxCap /\ guards[2].inner.elems = <<>>
    /\ allocCount = 1

\* C10: from_vec keeps the vector it is given as it is: until the first
\* call of reuse_allocation the holder's array is that vector (elements,
\* length, capacity, buffer), no destructor has run, and into_inner then
\* returns exactly that vector.
FromVecIntoInnerIdentity ==
    (origin = "from_vec" /\ \A g \in GuardIds : guards[g].state = "unborn") =>
        /\ hState \in {"live", "consumed"} => storage = fromArr
        /\ hState = "consumed" =>
              /\ returned = fromArr
              /\ \A e \in ElemIds : drops[e] = 0
              /\ returned.buf # NoBuf => heap[returned.buf] = "live"
        /\ hState = "live" => \A e \in ElemIds : drops[e] = 0

FromVecReturned ==
    /\ origin = "from_vec" /\ hState = "consumed"
    /\ \A g \in GuardIds : guards[g].state = "unborn"
    /\ Len(returned.elems) = 1 /\ returned.cap = 2

\* No call of reuse_allocation has been made on the holder yet.
NeverAcquired == \A g \in GuardIds : guards[g].state = "unborn"

\* C11 (as amended): with_capacity(n) yields an empty array of capacity >= n
\* and the first guard acquired from it starts with length 0 and capacity
\* >= n; new() yields an empty array that owns no allocation, of capacity 0
\* when S has a size and of capacity usize::MAX when S is zero-sized.
FreshHolderCapacity ==
    /\ []((hState = "live" /\ NeverAcquired /\ origin = "with_capacity") =>
              /\ storage.elems = <<>>
              /\ storage.cap >= requested)
    /\ []((hState = "live" /\ NeverAcquired /\ origin = "new") =>
              /\ storage.elems = <<>>
              /\ storage.buf = NoBuf
              /\ storage.cap = IF IsZst(S) THEN UsizeMax ELSE 0)
    /\ [][\A g \in GuardIds :
              (NeverAcquired /\ origin = "with_capacity" /\ Acquires(g)) =>
                  /\ guards'[g].inner.elems = <<>>
                  /\ guards'[g].inner.cap >= requested]_vars

FirstGuardOfWithCapacity ==
    /\ origin = "with_capacity"
    /\ Live(1) /\ guards[1].inner.elems = <<>>
    /\ guards[1].cap0 = MaxCap /\ guards[1].inner.cap = MaxCap
    /\ guards[1].inner.buf # NoBuf

\* C11 (as stated): with_capacity(n) yields an empty array of capacity >= n,
\* and new() yields an empty array of zero capacity.
NewHasZeroCapacity ==
    /\ (hState = "live" /\ NeverAcquired /\ origin = "with_capacity") =>
          (storage.elems = <<>> /\ storage.cap >= requested)
    /\ (hState = "live" /\ NeverAcquired /\ origin = "new") =>
          (storage.elems = <<>> /\ storage.cap = 0)

\* The number of vectors that own buffer b, among the vectors that exist:
\* the holder's array while the holder exists, the working vector of every
\* live guard, the vector into_inner returned.
Owners(b) ==
    (IF hState = "live" /\ storage.buf = b THEN 1 ELSE 0)
    + Cardinality({g \in GuardIds : Live(g) /\ guards[g].inner.buf = b})
    + (IF hState = "consumed" /\ returned.buf = b THEN 1 ELSE 0)

\* Every allocated buffer has exactly one owner, no freed buffer has one,
\* and no buffer was freed twice.
SingleOwner ==
    \A b \in BufIds :
        /\ heap[b] # "doublefreed"
        /\ Owners(b) = IF heap[b] = "live" THEN 1 ELSE 0

\* C12 (as amended): every allocated buffer has exactly one owner and none
\* is freed twice or leaked; while a guard is live the holder's array is the
\* placeholder Vec::new() (empty, no allocation; capacity 0, or usize::MAX
\* when S is zero-sized); after the handoff the guard's own vector is
\* Vec::new() (empty, no allocation; capacity 0, or usize::MAX when T is
\* zero-sized), so dropping the guard's fields frees nothing.
ExclusiveOwnership ==
    /\ SingleOwner
    /\ \A g \in GuardIds :
          /\ (Live(g) /\ hState = "live") =>
                /\ storage.elems = <<>>
                /\ storage.buf = NoBuf
                /\ storage.cap = IF IsZst(S) THEN UsizeMax ELSE 0
          /\ Dropped(g) =>
                /\ guards[g].inner.elems = <<>>
                /\ guards[g].inner.buf = NoBuf
          /\ (Dropped(g) /\ guards[g].exit # "none") =>
                guards[g].inner.cap = IF IsZst(guards[g].T) THEN UsizeMax ELSE 0

RegrownBufferOwnedByGuard ==
    /\ Dropped(1) /\ Live(2)
    /\ storage.buf = NoBuf
    /\ guards[2].inner.buf # NoBuf /\ heap[guards[2].inner.buf] = "live"
    /\ \E b \in BufIds : heap[b] = "freed"
    /\ guards[2].inner.cap > guards[2].cap0 /\ guards[2].cap0 > 0

\* C12 (as stated): single ownership, and the placeholder left in the holder
\* while a guard is live, like the vector left in the guard after the
\* handoff, is empty with zero capacity and no allocation.
PlaceholderHasZeroCapacity ==
    /\ SingleOwner
    /\ \A g \in GuardIds :
          /\ (Live(g) /\ hState = "live") =>
                (storage.elems = <<>> /\ storage.buf = NoBuf /\ storage.cap = 0)
          /\ (Dropped(g) /\ guards[g].exit # "none") =>
                /\ guards[g].inner.elems = <<>>
                /\ guards[g].inner.buf = NoBuf
                /\ guards[g].inner.cap = 0

\* C13: the holder's array field changes only when the holder is
\* constructed, when reuse_allocation is called (which leaves Vec::new() in
\* it) and when a guard is destroyed (the handoff); no step that leaves a
\* guard live (reading, push, pop, clear, resize, index assignment) and no
\* other step changes it.
OnlyAcquireAndDropTouchStorage ==
    /\ [][storage' # storage =>
              \/ hState = "none"
              \/ \E k \in GuardIds : Attempts(k)
              \/ \E g \in GuardIds : Releases(g)]_vars
    /\ [][\A g \in GuardIds :
              (Live(g) /\ guards'[g].state = "live") => storage' = storage]_vars
    /\ [][(\E k \in GuardIds : Attempts(k)) =>
              (storage'.elems = <<>> /\ storage'.buf = NoBuf)]_vars

GuardMutatedHolderUntouched ==
    \E g \in GuardIds :
        /\ Live(g) /\ ~guards[g].pure
        /\ Len(guards[g].inner.elems) >= 2
        /\ guards[g].inner.cap > guards[g].cap0
        /\ hState = "live" /\ storage = VecNew(S)

\* The step is a call of reuse_allocation for guard k that panicked.
Faults(k) == guards[k].state = "unborn" /\ guards'[k].state = "panicked"

\* C14 (as amended): a call of reuse_allocation with a working type of
\* another layout panics and produces no guard, and it does not leave the
\* holder unchanged: the holder then holds Vec::new() (empty, no allocation;
\* capacity 0, or usize::MAX when S is zero-sized), every element it held
\* has been dropped exactly once and the buffer it held has been freed.
FailedAcquireEmptiesHolder ==
    [][\A k \in GuardIds :
          /\ (Attempts(k) /\ Layout[guards'[k].T] # Layout[S]) => Faults(k)
          /\ Faults(k) =>
                /\ \A g \in GuardIds : guards'[g].state # "live"
                /\ hState' = "live"
                /\ storage'.elems = <<>>
                /\ storage'.buf = NoBuf
                /\ storage'.cap = IF IsZst(S) THEN UsizeMax ELSE 0
                /\ \A e \in Range(storage.elems) : drops[e] = 0 /\ drops'[e] = 1
                /\ storage.buf # NoBuf =>
                      (heap[storage.buf] = "live" /\ heap'[storage.buf] = "freed")
                /\ allocCount' = allocCount]_vars

FailedAcquireLostElements ==
    \E k \in GuardIds :
        /\ guards[k].state = "panicked" /\ guards[k].T # NoType
        /\ Len(guards[k].taken) >= 2
        /\ \A e \in Range(guards[k].taken) : drops[e] = 1
        /\ heap[1] = "freed"
        /\ hState = "live" /\ storage = VecNew(S)

\* C14 (as stated): after a call of reuse_allocation that panicked no guard
\* exists and the holder holds an empty array of capacity 0 and no
\* allocation.
FailedAcquireLeavesZeroCapacity ==
    \A k \in GuardIds :
        (guards[k].state = "panicked" /\ guards[k].T # NoType /\ hState = "live") =>
            /\ \A g \in GuardIds : ~Live(g)
            /\ storage.elems = <<>>
            /\ storage.buf = NoBuf
            /\ storage.cap = 0

\* C15: over successful cycles in which the working vector is changed by
\* push, pop, clear, resize and index assignment only, the capacity never
\* decreases: not within a cycle, and each acquisition starts with at least
\* the capacity every earlier cycle ended with, which is at least the
\* capacity that cycle started with; and from the first release on the
\* holder's array is empty whenever no guard is live.
CapacityNeverDecreases ==
    /\ [](\A g \in GuardIds :
              /\ Live(g) => guards[g].inner.cap >= guards[g].cap0
              /\ (Dropped(g) /\ guards[g].exit # "none") =>
                    guards[g].capEnd >= guards[g].cap0)
    /\ [][\A g \in GuardIds :
              /\ (Live(g) /\ guards'[g].state = "live") =>
                    guards'[g].inner.cap >= guards[g].inner.cap
              /\ (Acquires(g) /\ \A k \in GuardIds : k < g => Dropped(k)) =>
                    \A k \in GuardIds : k < g =>
                        guards'[g].inner.cap >= guards[k].capEnd]_vars
    /\ []((hState = "live" /\ ~Borrowed /\ \E g \in GuardIds : Dropped(g)) =>
              storage.elems = <<>>)

LaterCycleGrowsFurther ==
    /\ Dropped(1) /\ guards[1].capEnd = 2
    /\ Live(2) /\ guards[2].cap0 = 2
    /\ guards[2].inner.cap = 3 /\ ~guards[2].pure

====
